---------------------------- MODULE Spec2Model ----------------------------
(***************************************************************************)
(* A model of the Garmin -> Notion sync scripts:                           *)
(*   activity-sync.py  the activity sync (window fetch, per-activity       *)
(*                     normalisation, notion_request with retry, upsert)   *)
(*   weight-sync.py    the weight sync (record loop, date filter, upsert)  *)
(*                                                                         *)
(* Specifications:                                                         *)
(*   Spec       one of the scripts, run any number of times in sequence    *)
(*              against one destination (prog says which script)           *)
(*   SpecFetch  the pagination loop of the activity sync against an        *)
(*              arbitrary provider                                         *)
(*   SpecCalc   the pure helpers (bucketing, pace, candidate resolution,   *)
(*              backoff wait, property building) applied to drawn inputs   *)
(*   SpecRace   two overlapping runs upserting against one destination     *)
(*                                                                         *)
(* Encodings.  Python None is the number None (-1); every number the       *)
(* source handles is >= 0 here.  A startTimeLocal value is a record        *)
(* [kind, day, tod]: kind "none" is a missing/empty field, "text" a string *)
(* strptime rejects, "time" a well-formed "%Y-%m-%d %H:%M:%S" string of    *)
(* calendar day `day` and time of day `tod`.  A destination page id is the *)
(* position of the page in db, the order in which the store created it.    *)
(***************************************************************************)
EXTENDS Integers, Sequences, FiniteSets, TLC

None == -1

\* ------------------------------------------------------------------ config
\* Environment-configured values of activity-sync.py, set small here.
DAYS_BACK == 2
PAGE_SIZE == 2
MAX_ACTIVITIES == 5
NOTION_MAX_RETRIES == 2
\* NOTION_REQ_INTERVAL_SEC (0.35 s), in hundredths of a second.
NOTION_REQ_INTERVAL_SEC == 35

\* SYNC_SPLITS: the laps of an activity are synced to the splits collection.
SYNC_SPLITS == TRUE

\* datetime.now(TZ).date(), as a day number; runs of one behaviour share it.
Today == 4

\* ------------------------------------------------------------------ bounds
\* The longest sample sequence bucket_zones_seconds is given on its own.
MaxSamples == 3
\* The longest time-in-zone list the provider returns.
MaxZoneEntries == 2
\* The largest loop index the backoff wait is computed for.
MaxAttempt == 8
\* The destination refuses to store more than MaxRecords pages.
MaxRecords == 2
\* The longest window (all_acts, records) a run is given.
MaxWindow == 2

\* cutoff = (datetime.now(TZ) - timedelta(days=DAYS_BACK)).date()
cutoff == Today - DAYS_BACK

\* weight-sync.py: today and start = today - timedelta(days=DAYS_BACK)
today == Today
weight_start == today - DAYS_BACK

\* ------------------------------------------------------------ source values
TimeStr(d, t) == [kind |-> "time", day |-> d, tod |-> t]
NoStr == [kind |-> "none", day |-> None, tod |-> None]
BadStr == [kind |-> "text", day |-> None, tod |-> None]

\* datetime.strptime(st, "%Y-%m-%d %H:%M:%S") raises ValueError on a string
\* that is not of that format.
StrptimeRaises(st) == st.kind # "time"

\* The datetime strptime returns for a well-formed string.
Strptime(st) == [day |-> st.day, tod |-> st.tod]

\* dt.date() of a parsed datetime.
DateOf(dt) == dt.day

\* Python truthiness of an id or a string field: None, 0 and "" are falsy.
Truthy(v) == v # None /\ v # 0

\* A value float() and int() reject (a string that is no number, a dict).
NaS == -2
FloatRaises(v) == v = NaS

ZERO5 == <<0, 0, 0, 0, 0>>

\* get_hr_zone_thresholds() with no HR_Z*_MAX set.
HrThresholds == <<131, 151, 165, 171, 999>>

\* ZoneOf with open upper bounds: a sample equal to a bound goes to the
\* next band.
ZoneOfOpenBounds(x, bounds) ==
    IF x = None THEN 0
    ELSE IF FloatRaises(x) THEN 0
    ELSE IF x < bounds[1] THEN 1
    ELSE IF x < bounds[2] THEN 2
    ELSE IF x < bounds[3] THEN 3
    ELSE IF x < bounds[4] THEN 4
    ELSE 5

\* ZoneOf with nothing counted above the fifth bound.
ZoneOfDropsAbove(x, bounds) ==
    IF x = None THEN 0
    ELSE IF FloatRaises(x) THEN 0
    ELSE IF x <= bounds[1] THEN 1
    ELSE IF x <= bounds[2] THEN 2
    ELSE IF x <= bounds[3] THEN 3
    ELSE IF x <= bounds[4] THEN 4
    ELSE IF x <= bounds[5] THEN 5
    ELSE 0

\* One sample of bucket_zones_seconds: the band (1..5) it adds to, 0 for a
\* sample that is None or that float() rejects (skipped).
ZoneOf(x, bounds) ==
    IF x = None THEN 0
    ELSE IF FloatRaises(x) THEN 0
    ELSE IF x <= bounds[1] THEN 1
    ELSE IF x <= bounds[2] THEN 2
    ELSE IF x <= bounds[3] THEN 3
    ELSE IF x <= bounds[4] THEN 4
    ELSE IF x <= bounds[5] THEN 5
    ELSE 5

RECURSIVE BucketFrom(_, _, _)
BucketFrom(values, bounds, sec) ==
    IF values = <<>> THEN sec
    ELSE LET z == ZoneOf(Head(values), bounds)
         IN  BucketFrom(Tail(values), bounds,
                        IF z = 0 THEN sec ELSE [sec EXCEPT ![z] = @ + 1])

bucket_zones_seconds(values, bounds) ==
    IF values = <<>> THEN ZERO5 ELSE BucketFrom(values, bounds, ZERO5)

\* An entry of the provider's time-in-zone list: its zone number and its
\* seconds, each under the first of its candidate keys that is truthy.
ZoneEntry(zn, sec) == [zoneNumber |-> zn, seconds |-> sec]

\* The loop of parse_time_in_zone_seconds (lines 403-413): int(zn) and
\* int(float(sec)) raise on None (which `or` makes of 0 too) and on text,
\* and the entry is passed over; a zone outside 1..5 is passed over.
RECURSIVE ParseZones(_, _)
ParseZones(zones_list, acc) ==
    IF zones_list = <<>> THEN acc
    ELSE LET z  == Head(zones_list)
             ok == /\ Truthy(z.zoneNumber) /\ ~FloatRaises(z.zoneNumber)
                   /\ Truthy(z.seconds) /\ ~FloatRaises(z.seconds)
                   /\ z.zoneNumber \in 1..5
         IN  ParseZones(Tail(zones_list),
                        IF ok THEN [acc EXCEPT ![z.zoneNumber] = z.seconds] ELSE acc)

\* parse_time_in_zone_seconds: zones_obj is the list found in the reply,
\* <<>> when the call gave None, no dict, or a dict without a non-empty
\* list; the result <<>> stands for None.
parse_time_in_zone_seconds(zones_obj) ==
    IF zones_obj = <<>> THEN <<>> ELSE ParseZones(zones_obj, ZERO5)

\* ZoneSeconds with the sample stream preferred to the aggregate.
ZoneSecondsStreamFirst(parsed, vals, bounds) ==
    IF vals # <<>> THEN bucket_zones_seconds(vals, bounds)
    ELSE IF parsed # <<>> THEN parsed
    ELSE ZERO5

\* The zone seconds main() ends with (lines 633-647): the provider's
\* aggregate when parse_time_in_zone_seconds gives one (<<>> stands for its
\* None), else the bucketed stream, else five zeros.
ZoneSeconds(parsed, vals, bounds) ==
    IF parsed # <<>> THEN parsed
    ELSE IF vals # <<>> THEN bucket_zones_seconds(vals, bounds)
    ELSE ZERO5

\* ------------------------------------------------------ Notion properties
ZoneProps == <<"HR_Z1", "HR_Z2", "HR_Z3", "HR_Z4", "HR_Z5">>
PropNames ==
    {"ACT_ID", "DATE", "GCT", "WEIGHT", "CHANGE"} \cup {ZoneProps[k] : k \in 1..5}

NoProps == [p \in PropNames |-> None]

\* maybe_number(props, name, val): val None leaves props as it is.
maybe_number(props, name, val) ==
    IF val = None THEN props ELSE [props EXCEPT ![name] = val]

RECURSIVE SetZones(_, _, _)
SetZones(props, zones, k) ==
    IF k > 5 THEN props
    ELSE SetZones(maybe_number(props, ZoneProps[k], zones[k]), zones, k + 1)

\* What the detail calls of one activity return in one run: safe_call turns
\* a failing call into None.
DetailOutcomes == [activity : BOOLEAN, time_in_zones : BOOLEAN, details : BOOLEAN]
AllDetailsOk == [activity |-> TRUE, time_in_zones |-> TRUE, details |-> TRUE]

\* The properties main() builds for one activity (lines 571-730): the
\* title/date/id it always sets, one best-effort metric read from the
\* summary (avgGroundContactTime), and the five heart-rate zone seconds.
BuildProps(act, det) ==
    LET gct      == IF det.activity THEN act.gct ELSE None
        parsed   == IF det.time_in_zones
                      THEN parse_time_in_zone_seconds(act.hrTimeInZone) ELSE <<>>
        hr_vals  == IF det.details THEN act.heartRateDTOs ELSE <<>>
        hr_zones == ZoneSeconds(parsed, hr_vals, HrThresholds)
        base     == [NoProps EXCEPT !["ACT_ID"] = act.activityId,
                                    !["DATE"] = DateOf(Strptime(act.startTimeLocal))]
    IN  SetZones(maybe_number(base, "GCT", gct), hr_zones, 1)

\* The properties of BuildProps(act, det) that stand for a value this run
\* read from the provider: the id and date, the summary metric when the
\* summary held it, the zone seconds when the provider's aggregate or the
\* sample stream gave them.
Resolved(act, det) ==
    {"ACT_ID", "DATE"}
    \cup (IF det.activity /\ act.gct # None THEN {"GCT"} ELSE {})
    \cup (IF (det.time_in_zones /\ act.hrTimeInZone # <<>>)
              \/ (det.details /\ act.heartRateDTOs # <<>>)
           THEN {ZoneProps[k] : k \in 1..5} ELSE {})

\* ------------------------------------------------------------ destination
\* A PATCH of {"properties": props}: the properties sent replace the stored
\* ones, the others stay.
PatchPage(page, props) ==
    [p \in PropNames |-> IF props[p] # None THEN props[p] ELSE page[p]]

\* POST databases/<db>/query with an equality filter on `prop`, page_size 1:
\* the ids of the matching pages in the store's order, cut to one.
QueryResults(store, prop, key) ==
    LET hits == {k \in 1..Len(store) : store[k][prop] = key}
    IN  IF hits = {} THEN <<>>
        ELSE <<CHOOSE k \in hits : \A j \in hits : k <= j>>

\* notion_query_by_activity_id with the filter on another number property.
notion_query_by_other_property(store, activity_id) ==
    QueryResults(store, "GCT", activity_id)

\* notion_query_by_activity_id: the filter is P["ACT_ID"] equals the id.
notion_query_by_activity_id(store, activity_id) ==
    QueryResults(store, "ACT_ID", activity_id)

\* notion_query_by_date of weight-sync.py: the filter is "Date" equals.
notion_query_by_date(store, date_str) ==
    QueryResults(store, "DATE", date_str)

\* ----------------------------------------------------------- HTTP replies
\* status 0 stands for an exception of requests (timeout, connection
\* error); applied says whether the destination carried the request out.
\* One status of each kind the code tells apart: a success, a client error,
\* the rate limit, a server error.
Statuses == {0, 200, 400, 429, 503}
Retryable(status) == status \in {429, 500, 502, 503, 504}
Success(status) == status # 0 /\ status < 300

\* A 2xx was carried out, a 4xx was not; a 5xx, a 429 or a lost reply tells
\* the client nothing about it.
Replies ==
    {r \in [status : Statuses, applied : BOOLEAN] :
        /\ Success(r.status) => r.applied
        /\ r.status \in {400, 429} => ~r.applied}

\* ------------------------------------------------------------ conversions
\* A speed argument: a number (in tenths of a metre per second), None, or a
\* value float() rejects.
SpeedNum(v) == [kind |-> "num", val |-> v]
SpeedNone == [kind |-> "none", val |-> 0]
SpeedText == [kind |-> "text", val |-> 0]

\* round(n / d) for d > 0: the nearest whole number, a tie to the even one.
RoundPos(n, d) ==
    LET q == n \div d
        r == n % d
    IN  IF 2 * r < d THEN q
        ELSE IF 2 * r > d THEN q + 1
        ELSE IF q % 2 = 0 THEN q ELSE q + 1

RoundDiv(n, d) == IF d < 0 THEN 0 - RoundPos(n, 0 - d) ELSE RoundPos(n, d)

\* NonPositive letting negative speeds through.
NonPositiveZeroOnly(s) == s = 0

\* Line 220: if s <= 0
NonPositive(s) == s <= 0

\* speed_mps_to_pace_min_per_km, the pace in hundredths of a minute per
\* km: round((1000.0 / s) / 60.0, 2) with s = val / 10 is
\* 50000 / (3 * val) hundredths, rounded.  float(speed) raising is caught
\* and gives None.
speed_mps_to_pace_min_per_km(speed) ==
    IF speed.kind # "num" THEN None
    ELSE IF NonPositive(speed.val) THEN None
    ELSE RoundDiv(50000, 3 * speed.val)

\* a or b or c (lines 580-631): the first truthy operand, else the last.
RECURSIVE OrChain(_)
OrChain(cands) ==
    IF cands = <<>> THEN None
    ELSE IF Len(cands) = 1 THEN cands[1]
    ELSE IF Truthy(Head(cands)) THEN Head(cands)
    ELSE OrChain(Tail(cands))

\* meter_to_km: round(float(x) / 1000.0, 3), in thousandths of a km (a
\* whole number of metres is that many thousandths); None when float(x)
\* raises.
meter_to_km(x) == IF x = None \/ FloatRaises(x) THEN None ELSE x

\* A candidate key of a lap: whether the dict has it, and its value.
LapKey(has, v) == [present |-> has, val |-> v]

\* lap_distance_km: the value under the first key the lap has.
RECURSIVE lap_distance_km(_)
lap_distance_km(lap) ==
    IF lap = <<>> THEN None
    ELSE IF Head(lap).present THEN meter_to_km(Head(lap).val)
    ELSE lap_distance_km(Tail(lap))

\* BackoffWait without the ceiling.
BackoffWaitUncapped(k) == 10 * (2 ^ k) + 3

\* wait = min(20, (2 ** i) + 0.3), in tenths of a second.
BackoffWait(k) == IF 10 * (2 ^ k) + 3 < 200 THEN 10 * (2 ^ k) + 3 ELSE 200

\* ------------------------------------------------------------- the sources
\* An activity of the provider's list, with what its detail calls hold.
Activity(id, st, g, tiz, hr, lp) ==
    [activityId |-> id, startTimeLocal |-> st, gct |-> g,
     hrTimeInZone |-> tiz, heartRateDTOs |-> hr, laps |-> lp]

\* A lap of 1 km, its distance under the first candidate key.
KmLap == <<LapKey(TRUE, 1000), LapKey(FALSE, None), LapKey(FALSE, None)>>

\* The activities a window is drawn from: two well-formed ones (one a day
\* after the cutoff with a summary metric, a time-in-zone list and a lap,
\* one on the cutoff day with none), one a day older than the cutoff, one
\* without an id and two without a usable start time.  An activity id names
\* one activity, and a window lists an activity once.
ActivityPool ==
    { Activity(1, TimeStr(cutoff + 1, 1), 5,
               <<ZoneEntry(1, 7), ZoneEntry(2, 3)>>, <<>>,
               <<KmLap>>),
      Activity(2, TimeStr(cutoff, 0), None, <<>>, <<>>, <<>>),
      Activity(3, TimeStr(cutoff - 1, 1), 5, <<>>, <<>>, <<>>),
      Activity(None, TimeStr(cutoff + 1, 1), 5, <<>>, <<>>, <<>>),
      Activity(4, NoStr, 5, <<>>, <<>>, <<>>),
      Activity(5, BadStr, 5, <<>>, <<>>, <<>>) }

\* A record of the provider's weight list: its date field (calendarDate,
\* date or startTimeInSeconds), its weight and its delta.
WeightRecord(d, w, c) == [date |-> d, weight |-> w, delta |-> c]

WeightPool ==
    { WeightRecord(TimeStr(weight_start - 1, 0), 81, None),
      WeightRecord(TimeStr(weight_start, 0), 80, None),
      WeightRecord(TimeStr(today, 0), 79, 1),
      WeightRecord(TimeStr(today + 1, 0), 78, None),
      WeightRecord(TimeStr(today, 0), None, None),
      WeightRecord(NoStr, 80, None),
      WeightRecord(BadStr, 80, None) }

SeqsUpTo(S, n) == UNION {[1..k -> S] : k \in 0..n}

VARIABLES
    prog,       \* the script this behaviour runs
    pc,         \* where the script is
    all_acts,   \* activity sync: the fetched window
    records,    \* weight sync: the fetched records
    idx,        \* the position of the entity loop (1-based)
    props,      \* the properties built for the current entity
    db,         \* the destination collection: its pages, in creation order
    op,         \* the destination call in progress: query, create, patch
    i,          \* notion_request's loop variable
    existing,   \* the "results" of the last query
    status,     \* the outcome the last finished upsert returned
    start,      \* window fetch: the offset of the next page
    requested,  \* history: the offsets of the pages requested
    pagesGot,   \* history: the pages the provider returned
    reqSent,    \* history: HTTP requests sent by the current call
    backoffs,   \* history: backoff sleeps of the current call
    okReplies,  \* history: 2xx replies the current call has received
    fatalSeen,  \* history: the current call got a non-retryable error status
    laps,       \* extract_laps(details) of the current activity
    lap,        \* the lap whose split is being upserted, 0 for the activity
    sdb,        \* the splits collection: its pages, in creation order
    notion_page_id, \* the page id the activity upsert returned
    gap,        \* history: the time (1/100 s) the script slept between the
                \* destination request before the last one and the last one
    touched,    \* history: positions a destination request was sent for
    dropped,    \* history: <<position, reason>> of the entities skipped
    resolved,   \* history: the properties this run resolved for the entity
    runOk,      \* history: every remote call of this run succeeded so far
    prevOk,     \* history: the previous run ended normally with runOk
    fn,         \* a function applied on its own: which one
    arg,        \* its argument
    out,        \* its result
    runs        \* overlapping runs: the state of each run's upsert

vars == <<prog, pc, all_acts, records, idx, props, db, op, i, existing, status,
          start, requested, pagesGot, reqSent, backoffs, okReplies, fatalSeen, gap,
          laps, lap, sdb, notion_page_id,
          touched, dropped, resolved, runOk, prevOk, fn, arg, out, runs>>

calcVars == <<fn, arg, out>>
splitVars == <<laps, lap, sdb, notion_page_id>>
srcVars == <<prog, all_acts, records, calcVars, runs>>
fetchVars == <<start, requested, pagesGot>>
keptVars == <<srcVars, fetchVars, resolved>>
callVars == <<op, i, reqSent, backoffs, okReplies, fatalSeen, gap>>

\* A run's state as main() starts its entity loop.
RunStart ==
    /\ pc = "loop" /\ idx = 1 /\ props = NoProps
    /\ op = "none" /\ i = 0 /\ existing = <<>> /\ status = "none"
    /\ reqSent = 0 /\ backoffs = 0 /\ okReplies = 0 /\ fatalSeen = FALSE /\ gap = 0
    /\ touched = {} /\ dropped = {} /\ resolved = {} /\ runOk = TRUE
    /\ laps = <<>> /\ lap = 0 /\ notion_page_id = None

NoFetch == start = 0 /\ requested = <<>> /\ pagesGot = <<>>

\* No function is applied on its own and no runs overlap.
NoCalc == fn = "none" /\ arg = <<>> /\ out = <<>> /\ runs = <<>>

InitActivity ==
    /\ prog = "activity"
    /\ all_acts \in {w \in SeqsUpTo(ActivityPool, MaxWindow) :
                       \A j, k \in 1..Len(w) : w[j] = w[k] => j = k}
    /\ records = <<>>
    /\ db = <<>> /\ sdb = <<>>
    /\ prevOk = FALSE
    /\ NoFetch
    /\ NoCalc
    /\ RunStart

InitWeight ==
    /\ prog = "weight"
    /\ all_acts = <<>>
    /\ records \in SeqsUpTo(WeightPool, MaxWindow) \ {<<>>}
    /\ db = <<>> /\ sdb = <<>>
    /\ prevOk = FALSE
    /\ NoFetch
    /\ NoCalc
    /\ RunStart

\* ------------------------------------------------- activity sync: main()
\* extract_laps(details): the list under the first of its keys that holds
\* a non-empty list, [] without one.
extract_laps(act) == act.laps

\* HasSplits with the laps never synced.
HasSplitsNever == FALSE

\* Lines 738 and 743: splits are synced and the activity has laps.
HasSplits == SYNC_SPLITS /\ laps # <<>>

\* split_title = f"{activity_id}-L{idx}": the pair of the two numbers it
\* is written from (two pairs give the same title only when equal).
SplitTitle(activity_id, k) == <<activity_id, k>>

\* s_props (lines 753-763): the title, the relation to the activity page
\* and the distance (the lap index when the lap has none).
SplitProps(activity_id, k, l, page_id) ==
    [title |-> SplitTitle(activity_id, k),
     rel   |-> page_id,
     km    |-> IF lap_distance_km(l) # None THEN lap_distance_km(l) ELSE k]

\* notion_query_split_by_unique: the filter is the title equals.
notion_query_split_by_unique(store, split_title) ==
    QueryResults(store, "title", split_title)

\* SkipReason with the cutoff day itself dropped.
SkipReasonCutoffDayOut(act) ==
    IF ~Truthy(act.activityId) THEN "no id"
    ELSE IF act.startTimeLocal.kind = "none" THEN "no start time"
    ELSE IF StrptimeRaises(act.startTimeLocal) THEN "bad start time"
    ELSE IF DateOf(Strptime(act.startTimeLocal)) <= cutoff THEN "before cutoff"
    ELSE ""

\* Why the entity loop skips `act` (lines 551-565), "" when it does not.
SkipReason(act) ==
    IF ~Truthy(act.activityId) THEN "no id"
    ELSE IF act.startTimeLocal.kind = "none" THEN "no start time"
    ELSE IF StrptimeRaises(act.startTimeLocal) THEN "bad start time"
    ELSE IF DateOf(Strptime(act.startTimeLocal)) < cutoff THEN "before cutoff"
    ELSE ""

\* for act in all_acts: ... continue
SkipEntity ==
    /\ prog = "activity" /\ pc = "loop" /\ idx <= Len(all_acts)
    /\ SkipReason(all_acts[idx]) # ""
    /\ dropped' = dropped \cup {<<idx, SkipReason(all_acts[idx])>>}
    /\ idx' = idx + 1
    /\ UNCHANGED <<pc, props, db, existing, status, touched, runOk, prevOk>>
    /\ UNCHANGED <<keptVars, callVars>>
    /\ UNCHANGED splitVars

\* The loop body up to the call of notion_upsert_activity (lines 567-733):
\* the detail calls, the properties, and the entry into the query.
BeginUpsert ==
    /\ prog = "activity" /\ pc = "loop" /\ idx <= Len(all_acts)
    /\ SkipReason(all_acts[idx]) = ""
    /\ \E det \in DetailOutcomes :
          /\ props' = BuildProps(all_acts[idx], det)
          /\ resolved' = Resolved(all_acts[idx], det)
          /\ runOk' = (runOk /\ det = AllDetailsOk)
          /\ laps' = IF det.details THEN extract_laps(all_acts[idx]) ELSE <<>>
    /\ pc' = "request" /\ op' = "query" /\ i' = 0
    /\ reqSent' = 0 /\ backoffs' = 0 /\ okReplies' = 0 /\ fatalSeen' = FALSE
    /\ UNCHANGED <<gap, idx, db, existing, status, touched, dropped, prevOk>>
    /\ UNCHANGED <<srcVars, fetchVars, lap, sdb, notion_page_id>>

\* The loop is exhausted: print("Done: ...").
FinishRun ==
    /\ prog = "activity" /\ pc = "loop" /\ idx > Len(all_acts)
    /\ pc' = "done"
    /\ UNCHANGED <<idx, props, db, existing, status, touched, dropped, runOk, prevOk>>
    /\ UNCHANGED <<keptVars, callVars>>
    /\ UNCHANGED splitVars

\* --------------------------------------------------------- notion_request
\* _sleep(): time.sleep(NOTION_REQ_INTERVAL_SEC), the time it sleeps.
_sleep == NOTION_REQ_INTERVAL_SEC

\* Carry by a destination that refuses a second page of the same key.
CarryUniqueKey(store, o, page_id, p) ==
    IF o = "create"
      THEN IF \E k \in 1..Len(store) :
                 store[k]["ACT_ID"] = p["ACT_ID"] /\ store[k]["DATE"] = p["DATE"]
             THEN store ELSE Append(store, p)
    ELSE IF o = "patch" THEN [store EXCEPT ![page_id] = PatchPage(@, p)]
    ELSE store

\* What the destination does with a request it carries out.
Carry(store, o, page_id, p) ==
    IF o = "create" THEN Append(store, p)
    ELSE IF o = "patch" THEN [store EXCEPT ![page_id] = PatchPage(@, p)]
    ELSE store

\* What the splits collection does with a request it carries out; a patch
\* sends every property of s_props.
CarrySplit(store, o, page_id, p) ==
    IF o = "create" THEN Append(store, p)
    ELSE IF o = "patch" THEN [store EXCEPT ![page_id] = p]
    ELSE store

\* PageId with the first page of the collection, whatever the query gave.
PageIdFirstPage(results) == IF results = <<>> THEN 0 ELSE 1

\* The page a patch goes to: existing["results"][0]["id"].
PageId(results) == IF results = <<>> THEN 0 ELSE results[1]

\* MoreAttempts with a loop that runs once too often.
MoreAttemptsOneTooMany(k) == k < NOTION_MAX_RETRIES

\* for i in range(NOTION_MAX_RETRIES): is there an iteration after k?
MoreAttempts(k) == k + 1 < NOTION_MAX_RETRIES

\* Whether the except clause of notion_request (lines 146-149) catches what
\* the try block raises on a reply that is neither a success nor retryable:
\* the RuntimeError of line 144 is raised inside the try block, and
\* `except Exception` catches it like a timeout.
Caught(code) == TRUE

\* One iteration of notion_request's loop (lines 124-149) and, after the
\* last one, line 151: the request, the reply r, and what the loop does next.
NotionAttempt ==
    /\ prog = "activity" /\ pc = "request"
    /\ gap' = _sleep + (IF i > 0 THEN 10 * BackoffWait(i - 1) ELSE 0)
    /\ \E r \in Replies :
          /\ op = "query" => (r.applied <=> Success(r.status))
          /\ (op = "create" /\ r.applied)
                => Len(IF lap = 0 THEN db ELSE sdb) < MaxRecords
          /\ IF lap = 0
               THEN /\ db' = IF r.applied
                               THEN Carry(db, op, PageId(existing), props) ELSE db
                    /\ UNCHANGED sdb
               ELSE /\ sdb' = IF r.applied
                                THEN CarrySplit(sdb, op, PageId(existing),
                                                SplitProps(all_acts[idx].activityId, lap,
                                                           laps[lap], notion_page_id))
                                ELSE sdb
                    /\ UNCHANGED db
          /\ reqSent' = reqSent + 1
          /\ touched' = touched \cup {idx}
          /\ IF Success(r.status)
               THEN /\ okReplies' = okReplies + 1
                    /\ pc' = "returned"
                    /\ existing' =
                          IF op # "query" THEN existing
                          ELSE IF lap = 0
                            THEN notion_query_by_activity_id(db, props["ACT_ID"])
                          ELSE notion_query_split_by_unique(
                                   sdb, SplitTitle(all_acts[idx].activityId, lap))
                    /\ UNCHANGED <<i, backoffs, fatalSeen, runOk>>
               ELSE /\ runOk' = FALSE
                    /\ fatalSeen' = (fatalSeen \/ (r.status # 0 /\ ~Retryable(r.status)))
                    /\ UNCHANGED <<okReplies, existing>>
                    /\ IF r.status = 0 \/ Retryable(r.status) \/ Caught(r.status)
                         THEN /\ backoffs' = backoffs + 1
                              /\ i' = i + 1
                              /\ pc' = IF MoreAttempts(i) THEN "request" ELSE "crashed"
                         ELSE /\ pc' = "crashed"
                              /\ UNCHANGED <<i, backoffs>>
    /\ UNCHANGED <<idx, props, op, status, dropped, prevOk>>
    /\ UNCHANGED <<keptVars, laps, lap, notion_page_id>>

\* notion_upsert_activity after its query returned (lines 163-170): the
\* branch on existing.get("results") and the entry into the write.
UpsertBranch ==
    /\ prog = "activity" /\ pc = "returned" /\ op = "query" /\ lap = 0
    /\ op' = IF existing # <<>> THEN "patch" ELSE "create"
    /\ pc' = "request" /\ i' = 0
    /\ reqSent' = 0 /\ backoffs' = 0 /\ okReplies' = 0 /\ fatalSeen' = FALSE
    /\ UNCHANGED <<gap, idx, props, db, existing, status, touched, dropped, runOk, prevOk>>
    /\ UNCHANGED keptVars
    /\ UNCHANGED splitVars

\* notion_upsert_activity returns (lines 167, 171) and main() goes on to
\* the next activity (lines 733-735), there being no split to sync.
UpsertReturn ==
    /\ prog = "activity" /\ pc = "returned" /\ op \in {"patch", "create"}
    /\ lap = 0 /\ ~HasSplits
    /\ status' = IF op = "patch" THEN "updated" ELSE "created"
    /\ pc' = "loop" /\ idx' = idx + 1
    /\ props' = NoProps /\ existing' = <<>> /\ op' = "none" /\ resolved' = {}
    /\ UNCHANGED <<db, touched, dropped, runOk, prevOk>>
    /\ UNCHANGED <<i, reqSent, backoffs, okReplies, fatalSeen, gap>>
    /\ UNCHANGED <<srcVars, fetchVars, splitVars>>

\* notion_upsert_activity returns its status and page id (the id of the
\* page patched, or resp["id"] of the page the create made) and main()
\* enters the loop over the laps (lines 737-746) with the first lap's query.
UpsertReturnSplits ==
    /\ prog = "activity" /\ pc = "returned" /\ op \in {"patch", "create"}
    /\ lap = 0 /\ HasSplits
    /\ status' = IF op = "patch" THEN "updated" ELSE "created"
    /\ notion_page_id' = IF op = "patch" THEN PageId(existing) ELSE Len(db)
    /\ lap' = 1
    /\ pc' = "request" /\ op' = "query" /\ i' = 0 /\ existing' = <<>>
    /\ reqSent' = 0 /\ backoffs' = 0 /\ okReplies' = 0 /\ fatalSeen' = FALSE
    /\ UNCHANGED <<gap, idx, props, db, touched, dropped, runOk, prevOk>>
    /\ UNCHANGED <<keptVars, laps, sdb>>

\* notion_upsert_split after notion_query_split_by_unique returned (lines
\* 183-190): the branch on page_id and the entry into the write.
SplitBranch ==
    /\ prog = "activity" /\ pc = "returned" /\ op = "query" /\ lap > 0
    /\ op' = IF existing # <<>> THEN "patch" ELSE "create"
    /\ pc' = "request" /\ i' = 0
    /\ reqSent' = 0 /\ backoffs' = 0 /\ okReplies' = 0 /\ fatalSeen' = FALSE
    /\ UNCHANGED <<gap, idx, props, db, existing, status, touched, dropped, runOk, prevOk>>
    /\ UNCHANGED <<keptVars, splitVars>>

\* notion_upsert_split returns (lines 187, 190); the loop over the laps
\* goes on to the next lap, or ends and main() goes on to the next activity.
SplitReturn ==
    /\ prog = "activity" /\ pc = "returned" /\ op \in {"patch", "create"}
    /\ lap > 0
    /\ IF lap < Len(laps)
         THEN /\ lap' = lap + 1
              /\ pc' = "request" /\ op' = "query" /\ i' = 0 /\ existing' = <<>>
              /\ reqSent' = 0 /\ backoffs' = 0 /\ okReplies' = 0 /\ fatalSeen' = FALSE
              /\ UNCHANGED <<idx, props, resolved, laps, notion_page_id>>
         ELSE /\ lap' = 0 /\ laps' = <<>> /\ notion_page_id' = None
              /\ pc' = "loop" /\ idx' = idx + 1
              /\ props' = NoProps /\ existing' = <<>> /\ op' = "none" /\ resolved' = {}
              /\ UNCHANGED <<i, reqSent, backoffs, okReplies, fatalSeen>>
    /\ UNCHANGED <<gap, db, sdb, status, touched, dropped, runOk, prevOk>>
    /\ UNCHANGED <<srcVars, fetchVars>>

\* The script is started again, against the same source window.
Rerun ==
    /\ prog \in {"activity", "weight"}
    /\ pc \in {"done", "crashed"}
    /\ prevOk' = (pc = "done" /\ runOk)
    /\ pc' = "loop" /\ idx' = 1 /\ props' = NoProps
    /\ op' = "none" /\ i' = 0 /\ existing' = <<>> /\ status' = "none"
    /\ reqSent' = 0 /\ backoffs' = 0 /\ okReplies' = 0 /\ fatalSeen' = FALSE
    /\ gap' = 0
    /\ touched' = {} /\ dropped' = {} /\ resolved' = {} /\ runOk' = TRUE
    /\ laps' = <<>> /\ lap' = 0 /\ notion_page_id' = None
    /\ UNCHANGED <<db, sdb, srcVars, fetchVars>>

\* --------------------------------------------------- weight sync: main()
\* The loop body of weight-sync.py is read with line 238 (the call of
\* notion_upsert_weight) at the indentation of the lines around it.

\* Lines 191-196: fromisoformat, then strptime on the first ten characters,
\* raise on a date string neither can read; nothing catches the second.
WeightDateRaises(r) == r.date.kind = "text"

\* Why the record loop skips r (lines 180-203), "" when it does not.
WeightSkipReason(r) ==
    IF r.date.kind = "none" THEN "no date"
    ELSE IF DateOf(Strptime(r.date)) < weight_start THEN "before start"
    ELSE IF DateOf(Strptime(r.date)) > today THEN "after today"
    ELSE IF r.weight = None THEN "no weight"
    ELSE ""

\* The properties of lines 219-236.
WeightProps(r) ==
    maybe_number([NoProps EXCEPT !["DATE"] = DateOf(Strptime(r.date)),
                                 !["WEIGHT"] = r.weight],
                 "CHANGE", r.delta)

WeightSkip ==
    /\ prog = "weight" /\ pc = "loop" /\ idx <= Len(records)
    /\ ~WeightDateRaises(records[idx])
    /\ WeightSkipReason(records[idx]) # ""
    /\ dropped' = dropped \cup {<<idx, WeightSkipReason(records[idx])>>}
    /\ idx' = idx + 1
    /\ UNCHANGED <<pc, props, db, existing, status, touched, runOk, prevOk>>
    /\ UNCHANGED <<keptVars, callVars>>
    /\ UNCHANGED splitVars

\* The ValueError of line 195 leaves main().
WeightDateError ==
    /\ prog = "weight" /\ pc = "loop" /\ idx <= Len(records)
    /\ WeightDateRaises(records[idx])
    /\ pc' = "crashed"
    /\ UNCHANGED <<idx, props, db, existing, status, touched, dropped, runOk, prevOk>>
    /\ UNCHANGED <<keptVars, callVars>>
    /\ UNCHANGED splitVars

WeightBeginUpsert ==
    /\ prog = "weight" /\ pc = "loop" /\ idx <= Len(records)
    /\ ~WeightDateRaises(records[idx])
    /\ WeightSkipReason(records[idx]) = ""
    /\ props' = WeightProps(records[idx])
    /\ resolved' = {p \in PropNames : WeightProps(records[idx])[p] # None}
    /\ pc' = "request" /\ op' = "query" /\ i' = 0
    /\ reqSent' = 0 /\ backoffs' = 0 /\ okReplies' = 0 /\ fatalSeen' = FALSE
    /\ UNCHANGED <<gap, idx, db, existing, status, touched, dropped, runOk, prevOk>>
    /\ UNCHANGED <<srcVars, fetchVars>>
    /\ UNCHANGED splitVars

WeightFinishRun ==
    /\ prog = "weight" /\ pc = "loop" /\ idx > Len(records)
    /\ pc' = "done"
    /\ UNCHANGED <<idx, props, db, existing, status, touched, dropped, runOk, prevOk>>
    /\ UNCHANGED <<keptVars, callVars>>
    /\ UNCHANGED splitVars

\* One request of notion_query_by_date, notion_update_page or
\* notion_create_page (lines 35-66): sent once; a status >= 300 raises
\* RuntimeError and an exception of requests is not caught, so either
\* leaves main().  Nothing sleeps before the request.
WeightRequest ==
    /\ prog = "weight" /\ pc = "request"
    /\ gap' = 0
    /\ \E r \in Replies :
          /\ op = "query" => (r.applied <=> Success(r.status))
          /\ (op = "create" /\ r.applied) => Len(db) < MaxRecords
          /\ db' = IF r.applied THEN Carry(db, op, PageId(existing), props) ELSE db
          /\ reqSent' = reqSent + 1
          /\ touched' = touched \cup {idx}
          /\ IF Success(r.status)
               THEN /\ okReplies' = okReplies + 1
                    /\ pc' = "returned"
                    /\ existing' = IF op = "query"
                                     THEN notion_query_by_date(db, props["DATE"])
                                     ELSE existing
                    /\ UNCHANGED <<fatalSeen, runOk>>
               ELSE /\ runOk' = FALSE
                    /\ fatalSeen' = (fatalSeen \/ (r.status # 0 /\ ~Retryable(r.status)))
                    /\ pc' = "crashed"
                    /\ UNCHANGED <<okReplies, existing>>
    /\ UNCHANGED <<idx, props, op, i, backoffs, status, dropped, prevOk>>
    /\ UNCHANGED keptVars
    /\ UNCHANGED splitVars

\* notion_upsert_weight after its query (lines 71-76).
WeightBranch ==
    /\ prog = "weight" /\ pc = "returned" /\ op = "query"
    /\ op' = IF existing # <<>> THEN "patch" ELSE "create"
    /\ pc' = "request"
    /\ reqSent' = 0 /\ okReplies' = 0 /\ fatalSeen' = FALSE
    /\ UNCHANGED <<idx, props, db, existing, status, touched, dropped, runOk, prevOk>>
    /\ UNCHANGED <<i, backoffs, gap, keptVars>>
    /\ UNCHANGED splitVars

\* notion_upsert_weight returns (lines 74, 77); count += 1.
WeightReturn ==
    /\ prog = "weight" /\ pc = "returned" /\ op \in {"patch", "create"}
    /\ status' = IF op = "patch" THEN "updated" ELSE "created"
    /\ pc' = "loop" /\ idx' = idx + 1
    /\ props' = NoProps /\ existing' = <<>> /\ op' = "none" /\ resolved' = {}
    /\ UNCHANGED <<db, touched, dropped, runOk, prevOk>>
    /\ UNCHANGED <<i, reqSent, backoffs, okReplies, fatalSeen, gap>>
    /\ UNCHANGED <<srcVars, fetchVars>>
    /\ UNCHANGED splitVars

Init == InitActivity \/ InitWeight

Next ==
    \/ SkipEntity
    \/ BeginUpsert
    \/ FinishRun
    \/ NotionAttempt
    \/ UpsertBranch
    \/ UpsertReturn
    \/ UpsertReturnSplits
    \/ SplitBranch
    \/ SplitReturn
    \/ Rerun
    \/ WeightSkip
    \/ WeightDateError
    \/ WeightBeginUpsert
    \/ WeightFinishRun
    \/ WeightRequest
    \/ WeightBranch
    \/ WeightReturn

Spec == Init /\ [][Next]_vars

\* ------------------------------------------- activity sync: window fetch
\* What garmin.get_activities(start, PAGE_SIZE) may return: any page of at
\* most PAGE_SIZE activities, the empty page included.
Pages == SeqsUpTo(ActivityPool, PAGE_SIZE)

\* StopEarly looking at the first activity of the batch, not the last.
StopEarlyOnFirst(batch) ==
    LET st == batch[1].startTimeLocal
    IN  /\ st.kind # "none"
        /\ ~StrptimeRaises(st)
        /\ DateOf(Strptime(st)) < cutoff

\* Lines 534-542: the last activity of the batch has a start time that
\* parses to a date before the cutoff.
StopEarly(batch) ==
    LET st == batch[Len(batch)].startTimeLocal
    IN  /\ st.kind # "none"
        /\ ~StrptimeRaises(st)
        /\ DateOf(Strptime(st)) < cutoff

\* OverBound one page late.
OverBoundLate(s) == s > MAX_ACTIVITIES + PAGE_SIZE

\* Line 545: if start > MAX_ACTIVITIES: break
OverBound(s) == s > MAX_ACTIVITIES

InitFetch ==
    /\ prog = "activity"
    /\ pc = "fetch"
    /\ all_acts = <<>> /\ records = <<>> /\ db = <<>>
    /\ start = 0 /\ requested = <<>> /\ pagesGot = <<>>
    /\ idx = 1 /\ props = NoProps
    /\ op = "none" /\ i = 0 /\ existing = <<>> /\ status = "none"
    /\ reqSent = 0 /\ backoffs = 0 /\ okReplies = 0 /\ fatalSeen = FALSE /\ gap = 0
    /\ touched = {} /\ dropped = {} /\ resolved = {} /\ runOk = TRUE
    /\ prevOk = FALSE
    /\ NoCalc
    /\ laps = <<>> /\ lap = 0 /\ sdb = <<>> /\ notion_page_id = None

\* One iteration of the while loop of lines 527-546.
FetchPage ==
    /\ prog = "activity" /\ pc = "fetch"
    /\ \E batch \in Pages :
          /\ requested' = Append(requested, start)
          /\ pagesGot' = Append(pagesGot, batch)
          /\ IF batch = <<>>
               THEN pc' = "fetched" /\ UNCHANGED <<all_acts, start>>
               ELSE /\ all_acts' = all_acts \o batch
                    /\ IF StopEarly(batch)
                         THEN pc' = "fetched" /\ UNCHANGED start
                         ELSE /\ start' = start + PAGE_SIZE
                              /\ pc' = IF OverBound(start + PAGE_SIZE)
                                         THEN "fetched" ELSE "fetch"
    /\ UNCHANGED <<prog, records, idx, props, db, existing, status, touched,
                   dropped, resolved, runOk, prevOk>>
    /\ UNCHANGED <<callVars, calcVars, runs>>
    /\ UNCHANGED splitVars

\* garmin.get_activities raises: nothing in main() catches it.
FetchFails ==
    /\ prog = "activity" /\ pc = "fetch"
    /\ pc' = "crashed"
    /\ UNCHANGED <<prog, all_acts, records, idx, props, db, existing, status,
                   touched, dropped, resolved, runOk, prevOk>>
    /\ UNCHANGED <<fetchVars, callVars, calcVars, runs>>
    /\ UNCHANGED splitVars

NextFetch == FetchPage \/ FetchFails

SpecFetch == InitFetch /\ [][NextFetch]_vars

\* ------------------------------------------- functions applied on their own
\* The samples, threshold tuples, speeds, candidate values, laps and
\* activities the functions are applied to.
Samples == {None, NaS, 0, 2, 4, 5, 6, 8, 9, 131, 1000}
BoundTuples == {HrThresholds, <<2, 4, 6, 8, 10>>, <<5, 5, 5, 5, 5>>, <<8, 6, 4, 2, 0>>}
Speeds ==
    {SpeedNone, SpeedText}
    \cup {SpeedNum(v) : v \in {0 - 50, 0 - 3, 0, 1, 3, 7, 25, 28, 33, 100, 1000}}
CandVals == {None, 0, 3, 7}
Laps == [1..3 -> {LapKey(has, v) : has \in BOOLEAN, v \in {None, NaS, 0, 7}}]
ZoneObjs ==
    SeqsUpTo({ZoneEntry(zn, sec) : zn \in {NaS, 1, 2, 6}, sec \in {None, 0, 4}},
             MaxZoneEntries)
HrStreams == {<<>>, <<120, 140, None, 170>>, <<200>>}
CalcActivities ==
    {Activity(1, TimeStr(cutoff + 1, 1), 5, zo, hr, <<>>) :
        zo \in ZoneObjs, hr \in HrStreams}

InitCalc ==
    /\ prog = "calc" /\ pc = "calc"
    /\ \/ fn = "bucket"
          /\ arg \in [values : SeqsUpTo(Samples, MaxSamples), bounds : BoundTuples]
       \/ fn = "pace" /\ arg \in Speeds
       \/ fn = "or" /\ arg \in UNION {[1..k -> CandVals] : k \in 2..3}
       \/ fn = "lap" /\ arg \in Laps
       \/ fn = "backoff" /\ arg \in 0..MaxAttempt
       \/ fn = "props" /\ arg \in [act : CalcActivities, det : DetailOutcomes]
    /\ out = <<>> /\ runs = <<>>
    /\ all_acts = <<>> /\ records = <<>> /\ db = <<>>
    /\ NoFetch
    /\ idx = 1 /\ props = NoProps
    /\ op = "none" /\ i = 0 /\ existing = <<>> /\ status = "none"
    /\ reqSent = 0 /\ backoffs = 0 /\ okReplies = 0 /\ fatalSeen = FALSE /\ gap = 0
    /\ touched = {} /\ dropped = {} /\ resolved = {} /\ runOk = TRUE
    /\ prevOk = FALSE
    /\ laps = <<>> /\ lap = 0 /\ sdb = <<>> /\ notion_page_id = None

\* The function returns `result`.
Returns(result) ==
    /\ out' = result
    /\ pc' = "calculated"
    /\ UNCHANGED <<prog, all_acts, records, idx, props, db, existing, status,
                   touched, dropped, resolved, runOk, prevOk, fn, arg, runs>>
    /\ UNCHANGED <<fetchVars, callVars>>
    /\ UNCHANGED splitVars

ApplyBucket ==
    /\ pc = "calc" /\ fn = "bucket"
    /\ Returns(bucket_zones_seconds(arg.values, arg.bounds))

ApplyPace ==
    /\ pc = "calc" /\ fn = "pace"
    /\ Returns(speed_mps_to_pace_min_per_km(arg))

ApplyOr ==
    /\ pc = "calc" /\ fn = "or"
    /\ Returns(OrChain(arg))

ApplyLap ==
    /\ pc = "calc" /\ fn = "lap"
    /\ Returns(lap_distance_km(arg))

ApplyBackoff ==
    /\ pc = "calc" /\ fn = "backoff"
    /\ Returns(BackoffWait(arg))

ApplyBuildProps ==
    /\ pc = "calc" /\ fn = "props"
    /\ Returns(BuildProps(arg.act, arg.det))

NextCalc ==
    \/ ApplyBucket
    \/ ApplyPace
    \/ ApplyOr
    \/ ApplyLap
    \/ ApplyBackoff
    \/ ApplyBuildProps

SpecCalc == InitCalc /\ [][NextCalc]_vars

\* --------------------------------------------------------- overlapping runs
\* Two runs of one script, started one before the other has ended, each at
\* the upsert of one entity against the same destination.  A call of the
\* destination is taken whole: it returns after the destination carried
\* the request out once, or it raises without effect.
Runs == 1..2

\* The properties a run may be upserting: those main() builds for an
\* entity that passes its filters.
RaceProps ==
    IF prog = "activity"
      THEN {BuildProps(a, det) : a \in {x \in ActivityPool : SkipReason(x) = ""},
                                det \in DetailOutcomes}
      ELSE {WeightProps(w) :
              w \in {x \in WeightPool : ~WeightDateRaises(x) /\ WeightSkipReason(x) = ""}}

\* The property the upsert's query filters on.
KeyProp == IF prog = "activity" THEN "ACT_ID" ELSE "DATE"

InitRace ==
    /\ prog \in {"activity", "weight"}
    /\ pc = "race"
    /\ runs \in [Runs -> [pc : {"query"}, existing : {<<>>}, props : RaceProps]]
    /\ fn = "none" /\ arg = <<>> /\ out = <<>>
    /\ all_acts = <<>> /\ records = <<>> /\ db = <<>>
    /\ NoFetch
    /\ idx = 1 /\ props = NoProps
    /\ op = "none" /\ i = 0 /\ existing = <<>> /\ status = "none"
    /\ reqSent = 0 /\ backoffs = 0 /\ okReplies = 0 /\ fatalSeen = FALSE /\ gap = 0
    /\ touched = {} /\ dropped = {} /\ resolved = {} /\ runOk = TRUE
    /\ prevOk = FALSE
    /\ laps = <<>> /\ lap = 0 /\ sdb = <<>> /\ notion_page_id = None

\* What a step of an overlapping run leaves alone.
RaceKept ==
    /\ UNCHANGED <<prog, pc, all_acts, records, idx, props, existing, status,
                   touched, dropped, resolved, runOk, prevOk>>
    /\ UNCHANGED <<fetchVars, callVars, calcVars, splitVars>>

\* The query of run r's upsert returns, and the upsert branches on it
\* (activity-sync.py lines 162-163, weight-sync.py lines 70-71).
RaceQuery(r) ==
    /\ pc = "race" /\ runs[r].pc = "query"
    /\ LET res == QueryResults(db, KeyProp, runs[r].props[KeyProp])
       IN  runs' = [runs EXCEPT ![r].existing = res,
                                ![r].pc = IF res # <<>> THEN "patch" ELSE "create"]
    /\ UNCHANGED db
    /\ RaceKept

\* The write of run r's upsert returns (lines 164-171, 72-77).
RaceWrite(r) ==
    /\ pc = "race" /\ runs[r].pc \in {"create", "patch"}
    /\ runs[r].pc = "create" => Len(db) < MaxRecords
    /\ db' = Carry(db, runs[r].pc, PageId(runs[r].existing), runs[r].props)
    /\ runs' = [runs EXCEPT ![r].pc = IF runs[r].pc = "patch" THEN "updated"
                                                              ELSE "created"]
    /\ RaceKept

\* A call of run r raises, and the run ends there.
RaceFails(r) ==
    /\ pc = "race" /\ runs[r].pc \in {"query", "create", "patch"}
    /\ runs' = [runs EXCEPT ![r].pc = "crashed"]
    /\ UNCHANGED db
    /\ RaceKept

NextRace ==
    \/ \E r \in Runs : RaceQuery(r)
    \/ \E r \in Runs : RaceWrite(r)
    \/ \E r \in Runs : RaceFails(r)

SpecRace == InitRace /\ [][NextRace]_vars

\* ================================================================ claims
ActivityIds == {a.activityId : a \in ActivityPool} \ {None}

\* The calendar day of a date field that holds a well-formed date.
HasDay(st) == st.kind = "time"

\* ---- C1
\* C1: the destination never holds more than one page with the same
\* Activity ID, whatever the replies to the requests of notion_request were.
C1_OnePagePerActivityId ==
    prog = "activity" =>
        \A id \in ActivityIds : Cardinality({k \in 1..Len(db) : db[k]["ACT_ID"] = id}) <= 1

\* ---- C2
\* C2: in a run that follows a run in which every remote call succeeded, and
\* in which every remote call has succeeded so far, no step changes the
\* destination, no create is entered, and every upsert returns "updated".
C2_SecondRunChangesNothing ==
    [][(prog = "activity" /\ prevOk /\ runOk')
         => /\ db' = db
            /\ op' # "create"
            /\ status' \in {"none", "updated"}]_vars

\* A second all-successful run has upserted an activity and ended.
C2_Witness ==
    /\ prog = "activity" /\ prevOk /\ runOk /\ pc = "done"
    /\ status = "updated" /\ touched # {}

\* ---- C3
\* C3: a reply that is neither a success nor retryable ends the call at
\* once: the error leaves notion_request (and with it main), no backoff
\* sleep follows the request that got it, and no request is sent after it.
C3_FatalStatusAborts ==
    (prog = "activity" /\ fatalSeen) => (pc = "crashed" /\ backoffs < reqSent)

\* ---- C4
\* C4: a call of notion_request sends at most NOTION_MAX_RETRIES requests;
\* while it is still sending it has seen no success and has used fewer than
\* NOTION_MAX_RETRIES iterations, each one raising i; it returns at the
\* first success with that reply's body, and raises only without one.
C4_CallState ==
    prog = "activity" =>
        /\ reqSent <= NOTION_MAX_RETRIES
        /\ pc = "request" => (i < NOTION_MAX_RETRIES /\ reqSent = i /\ okReplies = 0)
        /\ pc = "returned" => okReplies = 1
        /\ (pc = "returned" /\ op = "query" /\ lap = 0)
              => \/ existing = <<>> /\ \A k \in 1..Len(db) : db[k]["ACT_ID"] # props["ACT_ID"]
                 \/ /\ Len(existing) = 1 /\ existing[1] \in 1..Len(db)
                    /\ db[existing[1]]["ACT_ID"] = props["ACT_ID"]
        /\ pc = "crashed" => okReplies = 0

C4_RequestTerminates ==
    /\ []C4_CallState
    /\ [][(prog = "activity" /\ pc = "request" /\ pc' = "request" /\ op' = op)
            => i' = i + 1]_vars

\* The destination answered every attempt of a call with 429/5xx or not at
\* all, and the call gave up.
C4_Witness ==
    /\ prog = "activity" /\ pc = "crashed"
    /\ reqSent = NOTION_MAX_RETRIES /\ ~fatalSeen

\* ---- C5
\* C5: a run ends normally even when an upsert failed, and by its end every
\* activity that passes the filters had its upsert attempted.
C5_FailureDoesNotAbortRun ==
    (prog = "activity" /\ pc \in {"done", "crashed"})
        => /\ pc = "done"
           /\ \A k \in 1..Len(all_acts) : SkipReason(all_acts[k]) = "" => k \in touched

C9_MalformedEntitySkipped ==
    /\ prog = "activity" =>
         \A k \in 1..Len(all_acts) :
            (~Truthy(all_acts[k].activityId) \/ ~HasDay(all_acts[k].startTimeLocal))
               => (k \notin touched /\ ~(pc = "crashed" /\ idx = k))
    /\ prog = "weight" =>
         \A k \in 1..Len(records) :
            ~HasDay(records[k].date)
               => (k \notin touched /\ ~(pc = "crashed" /\ idx = k))

\* ---- C10
\* C10: no step changes a stored property value that the current run did not
\* resolve for the entity it is upserting.
C10_UnresolvedMetricKept ==
    [][prog = "activity" =>
         \A k \in 1..Len(db) : \A p \in PropNames :
            (p \notin resolved /\ db[k][p] # None) => db'[k][p] = db[k][p]]_vars

\* ---- C6
\* Whether the fetch stops after this page because of the cutoff.
IsStopPage(batch) ==
    /\ batch # <<>>
    /\ HasDay(batch[Len(batch)].startTimeLocal)
    /\ batch[Len(batch)].startTimeLocal.day < cutoff

RECURSIVE Concat(_)
Concat(ps) == IF ps = <<>> THEN <<>> ELSE Head(ps) \o Concat(Tail(ps))

\* C6: the pages are requested at offsets 0, PAGE_SIZE, 2*PAGE_SIZE, ...;
\* no page is requested after a page whose last activity is dated before
\* the cutoff; the accumulated set holds every page received, in order.
C6_PagesInOrderUntilCutoff ==
    /\ Len(requested) = Len(pagesGot)
    /\ \A k \in 1..Len(requested) : requested[k] = (k - 1) * PAGE_SIZE
    /\ \A k \in 1..Len(pagesGot) :
          IsStopPage(pagesGot[k]) => (k = Len(pagesGot) /\ pc = "fetched")
    /\ all_acts = Concat(pagesGot)

\* The second page ended with an activity older than the cutoff (after a
\* newer one) and the fetch stopped there with both pages accumulated.
C6_Witness ==
    /\ pc = "fetched" /\ Len(pagesGot) = 2
    /\ Len(pagesGot[2]) = 2
    /\ IsStopPage(pagesGot[2]) /\ ~IsStopPage(<<pagesGot[2][1]>>)
    /\ Len(all_acts) = 4

\* ---- C7
\* C7: the loop asks for at most MAX_ACTIVITIES \div PAGE_SIZE + 1 pages, is
\* still running only with an offset within MAX_ACTIVITIES that grows by
\* PAGE_SIZE with every page, and asks for no page after an empty one.
C7_FetchBounded ==
    /\ Len(requested) <= (MAX_ACTIVITIES \div PAGE_SIZE) + 1
    /\ pc = "fetch" => (start <= MAX_ACTIVITIES /\ start = Len(requested) * PAGE_SIZE)
    /\ \A k \in 1..Len(pagesGot) : pagesGot[k] = <<>> => (k = Len(pagesGot) /\ pc = "fetched")

\* A provider that never returned an empty page nor an old or well-formed
\* date was asked for the last page the bound allows.
C7_Witness ==
    /\ pc = "fetched"
    /\ Len(requested) = (MAX_ACTIVITIES \div PAGE_SIZE) + 1
    /\ \A k \in 1..Len(pagesGot) :
          /\ Len(pagesGot[k]) = PAGE_SIZE
          /\ ~HasDay(pagesGot[k][PAGE_SIZE].startTimeLocal)

\* ---- C11
\* The samples of a sequence that are neither None nor rejected by float().
Numeric(values) == {k \in 1..Len(values) : values[k] # None /\ values[k] # NaS}

Sum5(t) == t[1] + t[2] + t[3] + t[4] + t[5]

\* C11: the five counts of bucket_zones_seconds sum to the number of
\* numeric samples, and against the counts of the sequence without its last
\* sample, a numeric last sample raises exactly one count by 1 and a null
\* or unparseable one changes none.
C11_CountsSumToNumericSamples ==
    (fn = "bucket" /\ pc = "calculated") =>
        /\ Sum5(out) = Cardinality(Numeric(arg.values))
        /\ arg.values # <<>> =>
             LET n    == Len(arg.values)
                 less == bucket_zones_seconds(SubSeq(arg.values, 1, n - 1), arg.bounds)
             IN  IF n \in Numeric(arg.values)
                   THEN \E z \in 1..5 :
                          /\ out[z] = less[z] + 1
                          /\ \A y \in (1..5) \ {z} : out[y] = less[y]
                   ELSE out = less

\* A sequence with a null, an unparseable and a numeric sample above every
\* threshold was bucketed.
C11_Witness ==
    /\ fn = "bucket" /\ pc = "calculated"
    /\ arg.values = <<None, 1000, NaS>> /\ arg.bounds = HrThresholds
    /\ out = <<0, 0, 0, 0, 1>>

\* ---- C13
\* C13: the pace is None for a speed that is null, not a number, zero or
\* negative, and for a positive speed it is the hundredth of a minute per
\* km nearest to (1000 / speed) / 60.
C13_PaceOfSpeed ==
    (fn = "pace" /\ pc = "calculated") =>
        IF arg.kind # "num" \/ arg.val <= 0 THEN out = None
        ELSE /\ out >= 0
             /\ 2 * (3 * arg.val * out - 50000) <= 3 * arg.val
             /\ 2 * (50000 - 3 * arg.val * out) <= 3 * arg.val

\* The pace of a negative speed and of 2.8 m/s (5.95 min/km) were computed.
C13_Witness ==
    /\ fn = "pace" /\ pc = "calculated"
    /\ \/ arg = SpeedNum(0 - 50) /\ out = None
       \/ arg = SpeedNum(28) /\ out = 595

\* ---- C14
\* The first candidate that is present with a value, None without one.
RECURSIVE FirstPresent(_)
FirstPresent(vals) ==
    IF vals = <<>> THEN None
    ELSE IF Head(vals) # None THEN Head(vals)
    ELSE FirstPresent(Tail(vals))

\* C14: a metric resolved from a list of candidates is the value of the
\* first candidate that is present with a value (0 included), and absent
\* when none is.
C14_FirstPresentCandidate ==
    /\ (fn = "or" /\ pc = "calculated") => out = FirstPresent(arg)
    /\ (fn = "lap" /\ pc = "calculated") =>
          out = FirstPresent([k \in 1..Len(arg) |->
                                 IF arg[k].present THEN meter_to_km(arg[k].val) ELSE None])

\* ---- C19
\* C19: the backoff wait after failed attempt i is min(20, 2^i + 0.3)
\* seconds: at most 20 s, not less than the wait after attempt i - 1, and
\* 20 s from i = 5 on.
C19_BackoffWait ==
    (fn = "backoff" /\ pc = "calculated") =>
        /\ out <= 200
        /\ (10 * (2 ^ arg) + 3 <= 200) => out = 10 * (2 ^ arg) + 3
        /\ arg > 0 => out >= BackoffWait(arg - 1)
        /\ arg >= 5 => out = 200

\* The wait after the fifth and after the sixth attempt was computed.
C19_Witness ==
    /\ fn = "backoff" /\ pc = "calculated"
    /\ \/ arg = 4 /\ out = 163
       \/ arg = 5 /\ out = 200

\* ---- C12
\* The seconds the provider's list holds for zone z: those of its last
\* entry for z that has a zone number and seconds, 0 without one.
Usable(e) ==
    /\ e.zoneNumber \notin {None, NaS, 0}
    /\ e.seconds \notin {None, NaS, 0}

AggregateSeconds(zones_obj, z) ==
    LET hits == {k \in 1..Len(zones_obj) :
                    Usable(zones_obj[k]) /\ zones_obj[k].zoneNumber = z}
    IN  IF hits = {} THEN 0
        ELSE zones_obj[CHOOSE k \in hits : \A j \in hits : j <= k].seconds

\* C12: with a time-in-zone list from the provider the zone seconds written
\* are those of the list, whatever the samples; without one they are the
\* bucketed samples, and five zeros when there are no samples either.
C12_AggregateBeforeSamples ==
    (fn = "props" /\ pc = "calculated") =>
        LET zo      == IF arg.det.time_in_zones THEN arg.act.hrTimeInZone ELSE <<>>
            samples == IF arg.det.details THEN arg.act.heartRateDTOs ELSE <<>>
        IN  \A z \in 1..5 :
               out[ZoneProps[z]] =
                  IF zo # <<>> THEN AggregateSeconds(zo, z)
                  ELSE IF samples # <<>>
                         THEN bucket_zones_seconds(samples, HrThresholds)[z]
                  ELSE 0

\* The provider gave both a time-in-zone list and heart-rate samples, and
\* the seconds written are the list's, not the bucketed samples'.
C12_Witness ==
    /\ fn = "props" /\ pc = "calculated"
    /\ arg.det = AllDetailsOk
    /\ arg.act.hrTimeInZone = <<ZoneEntry(1, 4), ZoneEntry(6, 4)>>
    /\ arg.act.heartRateDTOs = <<200>>
    /\ out["HR_Z1"] = 4 /\ out["HR_Z5"] = 0

\* ---- C15
\* C15: the script slept at least the minimum inter-request delay before
\* the last destination request it sent, in every sync.
C15_DelayBeforeEveryRequest ==
    reqSent > 0 => gap >= NOTION_REQ_INTERVAL_SEC

\* ---- C16
\* The pages of the destination dated before day d.
Before(d) == {k \in 1..Len(db) : db[k]["DATE"] # None /\ db[k]["DATE"] < d}

\* C16: the Change the weight sync is about to write for a record is its
\* weight minus the weight of the latest destination page dated before it,
\* and is absent when there is no such page or it has no weight.
C16_ChangeFromDestination ==
    (prog = "weight" /\ pc = "request" /\ op = "query") =>
        IF Before(props["DATE"]) = {} THEN props["CHANGE"] = None
        ELSE LET k == CHOOSE k \in Before(props["DATE"]) :
                         \A j \in Before(props["DATE"]) : db[j]["DATE"] <= db[k]["DATE"]
             IN  IF db[k]["WEIGHT"] = None THEN props["CHANGE"] = None
                 ELSE /\ props["CHANGE"] # None
                      /\ props["WEIGHT"] - props["CHANGE"] = db[k]["WEIGHT"]

\* ---- C17
\* The key of the entity run r upserts.
RaceKey(r) == runs[r].props[KeyProp]

\* C17: nothing in the upsert stops a run whose query found no record from
\* creating one: for every key the destination holds as many pages as runs
\* have created for it, so two overlapping runs that both queried before
\* either wrote leave two pages of one key.
C17_OverlappingRunsBothCreate ==
    pc = "race" =>
        \A key \in {RaceKey(r) : r \in Runs} :
            Cardinality({k \in 1..Len(db) : db[k][KeyProp] = key})
              = Cardinality({r \in Runs : RaceKey(r) = key /\ runs[r].pc = "created"})

\* Both runs upserted the same key, both queries saw no record, both
\* created, and the destination holds two pages of that key.
C17_Witness ==
    /\ pc = "race"
    /\ RaceKey(1) = RaceKey(2)
    /\ runs[1].pc = "created" /\ runs[2].pc = "created"
    /\ runs[1].existing = <<>> /\ runs[2].existing = <<>>
    /\ Cardinality({k \in 1..Len(db) : db[k][KeyProp] = RaceKey(1)}) = 2

\* ---- C18
\* The collection the current upsert works on, and the key it queries by.
Target == IF lap = 0 THEN db ELSE sdb
TargetKeyProp == IF lap > 0 THEN "title" ELSE IF prog = "activity" THEN "ACT_ID" ELSE "DATE"
TargetKey ==
    IF lap > 0 THEN SplitTitle(all_acts[idx].activityId, lap) ELSE props[TargetKeyProp]
Matches == {k \in 1..Len(Target) : Target[k][TargetKeyProp] = TargetKey}

\* C18: an upsert starts with no result at hand and with its query; a
\* write is entered only from the returned query of the same upsert, a
\* create when the query had no result and a patch when it had one; a
\* patch changes no page but the first one the key matches, a create only
\* appends, a query changes nothing; and after its write the upsert ends.
C18_QueryHolds ==
    prog \in {"activity", "weight"} =>
        /\ (pc = "request" /\ op = "query") => existing = <<>>
        /\ (pc = "request" /\ op = "create") => existing = <<>>
        /\ (pc = "request" /\ op = "patch") =>
              /\ Matches # {}
              /\ existing = <<CHOOSE k \in Matches : \A j \in Matches : k <= j>>

C18_QueryThenBranch ==
    /\ []C18_QueryHolds
    /\ [][(prog \in {"activity", "weight"}) =>
            /\ (op' \in {"create", "patch"} /\ op' # op)
                  => (op = "query" /\ pc = "returned" /\ okReplies = 1)
            /\ (op \in {"create", "patch"} /\ op' # op) => op' \in {"none", "query"}
            /\ (op' = "query" /\ pc' = "request" /\ pc # "request") => existing' = <<>>
            /\ (pc = "request" /\ op = "query") => (db' = db /\ sdb' = sdb)
            /\ (pc = "request" /\ op = "create" /\ Target' # Target)
                  => Target' = Append(Target, Target'[Len(Target')])
            /\ (pc = "request" /\ op = "patch") =>
                  /\ Len(Target') = Len(Target)
                  /\ \A k \in 1..Len(Target) :
                        Target'[k] # Target[k] => (k \in Matches /\ \A j \in Matches : k <= j) ]_vars

\* A patch was carried out on the second page of the collection, the one
\* the query of that upsert returned.
C18_Witness ==
    /\ prog = "activity" /\ pc = "returned" /\ op = "patch" /\ lap = 0
    /\ existing = <<2>> /\ db[2]["ACT_ID"] = props["ACT_ID"]

\* ---- C20
\* C20: requests are sent for the entity the loop is at and for none after
\* it; the loop moves to the next entity, one at a time, only from between
\* two upserts or from a returned write, and when the activity has laps to
\* sync only from the write of its last lap; the laps are upserted in
\* order after the activity's own write.
C20_InLoop ==
    prog \in {"activity", "weight"} =>
        /\ \A k \in touched : k <= idx
        /\ pc \in {"request", "returned"} => idx \in 1..Len(IF prog = "activity" THEN all_acts ELSE records)
        /\ lap \in 0..Len(laps)

C20_EntityOrder ==
    /\ []C20_InLoop
    /\ [][(prog \in {"activity", "weight"} /\ ~(pc \in {"done", "crashed"}))
            => /\ UNCHANGED <<all_acts, records>>
               /\ reqSent' = reqSent + 1 => (idx' = idx /\ touched' = touched \cup {idx})
               /\ idx' # idx =>
                     /\ idx' = idx + 1
                     /\ pc' = "loop"
                     /\ \/ pc = "loop"
                        \/ /\ pc = "returned" /\ op \in {"create", "patch"}
                           /\ lap = (IF SYNC_SPLITS /\ prog = "activity" THEN Len(laps) ELSE 0)
               /\ lap' # lap =>
                     \/ /\ lap' = lap + 1
                        /\ pc = "returned" /\ op \in {"create", "patch"}
                        /\ idx' = idx
                     \/ lap' = 0 /\ lap = Len(laps) /\ idx' = idx + 1 ]_vars

\* The loop is at its second entity with a request sent for it, after the
\* first one, an activity with a lap, had its page and its split written.
C20_Witness ==
    /\ prog = "activity" /\ idx = 2 /\ touched = {1, 2}
    /\ all_acts[1].laps # <<>> /\ Len(db) = 1 /\ Len(sdb) = 1
    /\ pc = "request" /\ reqSent > 0

\* ---- C21
\* Whether band z takes the numeric sample x under closed upper bounds.
InBand(x, z, bounds) ==
    IF z = 1 THEN x <= bounds[1]
    ELSE IF z = 5 THEN x > bounds[4]
    ELSE bounds[z - 1] < x /\ x <= bounds[z]

\* C21: with thresholds in ascending order, the count of band 1 is the
\* number of numeric samples x <= bound1, that of band i (2..4) the number
\* with bound(i-1) < x <= bound(i), and that of band 5 the number with
\* x > bound4, the ones above the fifth bound included.
C21_ClosedUpperBounds ==
    ( /\ fn = "bucket" /\ pc = "calculated"
      /\ \A z \in 1..4 : arg.bounds[z] <= arg.bounds[z + 1] ) =>
        \A z \in 1..5 :
            out[z] = Cardinality({k \in Numeric(arg.values) :
                                     InBand(arg.values[k], z, arg.bounds)})

\* Samples equal to the second and to the fourth bound and one above the
\* fifth were counted in bands 2, 4 and 5.
C21_Witness ==
    /\ fn = "bucket" /\ pc = "calculated"
    /\ arg.bounds = <<2, 4, 6, 8, 10>>
    /\ arg.values = <<4, 8, 131>>
    /\ out = <<0, 1, 0, 1, 1>>

\* ---- C22
\* C22: while a split is upserted the activity upsert of the same run has
\* returned a page of that activity; every split page is keyed by an
\* activity id and a lap index from 1 and relates to a page of that
\* activity; and the splits collection never holds two pages of one key.
C22_OneSplitPerLap ==
    prog = "activity" =>
        /\ lap > 0 =>
              /\ status \in {"created", "updated"}
              /\ notion_page_id \in 1..Len(db)
              /\ db[notion_page_id]["ACT_ID"] = all_acts[idx].activityId
        /\ \A k \in 1..Len(sdb) :
              /\ sdb[k].title[1] \in ActivityIds
              /\ sdb[k].title[2] >= 1
              /\ sdb[k].rel \in 1..Len(db)
              /\ db[sdb[k].rel]["ACT_ID"] = sdb[k].title[1]
        /\ \A j, k \in 1..Len(sdb) : sdb[j].title = sdb[k].title => j = k

=============================================================================
